---- MODULE Spec2Model ----
(***************************************************************************)
(* A model of createControlledTypeScriptSystem                             *)
(* (src/typescript-reporter/reporter/ControlledTypeScriptSystem.ts): the   *)
(* watcher registries, the deleted-file tracker, the queue of native       *)
(* directory changes, the virtual timers and the routing of writes.        *)
(*                                                                         *)
(* Paths are sequences of one-character strings, so that dirname,          *)
(* startsWith, includes and endsWith are computed character by character   *)
(* as the code computes them.                                              *)
(***************************************************************************)
EXTENDS Naturals, Sequences, FiniteSets

\* ------------------------------------------------------------- bounds

\* Watcher handles (watchFile / watchDirectory calls) per instance.
MaxHandles == 2
\* Native directory events (thunks created) per instance.
MaxThunks == 2
\* Timers scheduled per instance.
MaxTimers == 3

\* ------------------------------------------------------------- strings

StartsWith(s, prefix) ==
    /\ Len(prefix) <= Len(s)
    /\ SubSeq(s, 1, Len(prefix)) = prefix

EndsWith(s, suffix) ==
    /\ Len(suffix) <= Len(s)
    /\ SubSeq(s, Len(s) - Len(suffix) + 1, Len(s)) = suffix

Includes(s, sub) ==
    \E i \in 0..Len(s) :
        /\ i + Len(sub) <= Len(s)
        /\ SubSeq(s, i + 1, i + Len(sub)) = sub

\* s[i] of JavaScript (0-based); "undefined" past the end.
CharAt(s, i) == IF i + 1 <= Len(s) THEN s[i + 1] ELSE "undefined"

UpperChars == <<"A", "B", "R", "X">>
LowerChars == <<"a", "b", "r", "x">>

ToLowerChar(c) ==
    IF \E i \in 1..Len(UpperChars) : UpperChars[i] = c
    THEN LowerChars[CHOOSE i \in 1..Len(UpperChars) : UpperChars[i] = c]
    ELSE c

ToLowerCase(s) == [i \in 1..Len(s) |-> ToLowerChar(s[i])]

\* utils/path/forwardSlash: every backslash becomes a forward slash.
forwardSlash(s) == [i \in 1..Len(s) |-> IF s[i] = "\\" THEN "/" ELSE s[i]]

\* path.dirname of node (posix): the path up to its last separator that is
\* followed by a name; "/" for a name directly under the root.
dirname(p) ==
    LET ends == {i \in 2..Len(p) :
                    /\ p[i] = "/"
                    /\ \E j \in (i + 1)..Len(p) : p[j] # "/"}
        hasRoot == Len(p) > 0 /\ p[1] = "/"
    IN  IF Len(p) = 0 THEN <<".">>
        ELSE IF ends = {} THEN (IF hasRoot THEN <<"/">> ELSE <<".">>)
        ELSE LET end == CHOOSE i \in ends : \A j \in ends : j <= i
             IN  IF hasRoot /\ end = 2 THEN <<"/", "/">>
                 ELSE SubSeq(p, 1, end - 1)

\* ------------------------------------------------------------- paths

PathRoot == <<"/">>
PathR == <<"/", "r">>
PathRA == <<"/", "r", "/", "a">>
PathRAB == <<"/", "r", "/", "a", "/", "b">>
PathRB == <<"/", "r", "/", "b">>
PathUpperRAB == <<"/", "R", "/", "a", "/", "b">>
PathRX == <<"/", "r", "x">>
PathRXB == <<"/", "r", "x", "/", "b">>
PathGit == <<"/", "r", "/", ".", "g", "i", "t">>
PathGitX == <<"/", "r", "/", ".", "g", "i", "t", "/", "x">>
PathLock == <<"/", "r", "/", ".", "#", "b">>
PathBuildInfo == <<"/", "r", "/", "b", ".", "t", "s", "b", "u", "i", "l", "d", "i", "n", "f", "o">>
PathBuildInfoDir ==
    <<"/", "r", "/", "b", ".", "t", "s", "b", "u", "i", "l", "d", "i", "n", "f", "o", "/", "b">>

TsBuildInfo == <<".", "t", "s", "b", "u", "i", "l", "d", "i", "n", "f", "o">>

ignoredPaths ==
    << <<"/", "n", "o", "d", "e", "_", "m", "o", "d", "u", "l", "e", "s", "/", ".">>,
       <<"/", ".", "g", "i", "t">>,
       <<"/", ".", "#">> >>

Callbacks == {"cb1", "cb2"}
Modes == {"readonly", "write-tsbuildinfo", "write-references"}

\* ------------------------------------------------------------- state

VARIABLES
    mode,                                   \* the constructor's argument
    caseSensitive,                          \* ts.sys.useCaseSensitiveFileNames
    sysWatchDirectory,                      \* whether ts.sys.watchDirectory is defined
    fileWatcherCallbacksMap,
    directoryWatcherCallbacksMap,
    recursiveDirectoryWatcherCallbacksMap,
    queuedWatcherCallbacksSet,
    deletedFiles,
    timeoutCallbacks,
    passiveFiles,       \* the overlay of the passive provider, by normalized path
    realFiles,          \* the files of the real provider, by normalized path
    returned,           \* what the last operation returned
    handles,            \* the watcher handles returned so far (their closures)
    thunkCount,         \* scopedCallback closures created so far
    timers,             \* the immediates created by setTimeout so far
    waiting,            \* position of a waitForQueued call
    history,            \* per normalized path: the last write or delete of it
    ranThunks,          \* the thunks invoked by some flush so far
    steady,             \* per path operated on: the callbacks watching it ever since before
    received,           \* per path and steady callback: the last Created or Deleted it got
    last,               \* the operation of the last step
    pre,                \* the registries as they were before the last step
    effects             \* what the last step did, in order

vars ==
    <<mode, caseSensitive, sysWatchDirectory, fileWatcherCallbacksMap,
      directoryWatcherCallbacksMap, recursiveDirectoryWatcherCallbacksMap,
      queuedWatcherCallbacksSet, deletedFiles, timeoutCallbacks, handles,
      thunkCount, timers, waiting, history, ranThunks, last, pre, effects,
      passiveFiles, realFiles, returned, steady, received>>

\* ------------------------------------------------------------- maps

\* A Map<string, T[]> as the sequence of its entries in insertion order.
EmptyMap == <<>>

MapHas(m, k) == \E i \in 1..Len(m) : m[i].key = k

MapIndex(m, k) == CHOOSE i \in 1..Len(m) : m[i].key = k

\* watchersMap.get(k) || []
MapGetOrEmpty(m, k) == IF MapHas(m, k) THEN m[MapIndex(m, k)].val ELSE <<>>

MapSet(m, k, v) ==
    IF MapHas(m, k)
    THEN [m EXCEPT ![MapIndex(m, k)].val = v]
    ELSE Append(m, [key |-> k, val |-> v])

MapDelete(m, k) == SelectSeq(m, LAMBDA e : e.key # k)

\* deletedFiles, whose order of entries is never observed: a function from
\* the keys it holds to their value.
EmptyDeleted == [k \in {} |-> FALSE]

\* deletedFiles.get(k), as a condition (undefined is falsy)
DeletedGet(d, k) == k \in DOMAIN d /\ d[k]

DeletedSet(d, k, v) == [x \in DOMAIN d \cup {k} |-> IF x = k THEN v ELSE d[x]]

\* ------------------------------------------------------------- effects

\* One entry of the log of a step: a call on a provider (who is "real" or
\* "passive", what the method) or the invocation of a callback (who is the
\* callback, what the event; key is the registry key it was registered on,
\* id the thunk's identity for a queued callback).
Effect(kind, who, what, path, key, id, ok) ==
    [kind |-> kind, who |-> who, what |-> what, path |-> path, key |-> key,
     id |-> id, ok |-> ok]

ProviderCall(fs, method, path, ok) == Effect("provider", fs, method, path, <<>>, 0, ok)

Range(s) == {s[i] : i \in 1..Len(s)}

RECURSIVE Flatten(_)
Flatten(ss) == IF ss = <<>> THEN <<>> ELSE Head(ss) \o Flatten(Tail(ss))

\* ------------------------------------------------------------- helpers of the host

\* realFileSystem.normalizePath: the canonical form of an absolute path,
\* case-folded unless the file system is case sensitive.
normalizePath(path) == IF caseSensitive THEN path ELSE ToLowerCase(path)

\* The registries, the queue and the handles as one value, with the log of
\* the running operation.
Core ==
    [file |-> fileWatcherCallbacksMap,
     dir |-> directoryWatcherCallbacksMap,
     rec |-> recursiveDirectoryWatcherCallbacksMap,
     queue |-> queuedWatcherCallbacksSet,
     deleted |-> deletedFiles,
     handles |-> handles,
     thunkCount |-> thunkCount,
     history |-> history,
     ranThunks |-> ranThunks,
     timeoutCallbacks |-> timeoutCallbacks,
     timers |-> timers,
     passiveFiles |-> passiveFiles,
     realFiles |-> realFiles,
     steady |-> steady,
     received |-> received,
     returned |-> "void",
     notified |-> <<>>,
     effects |-> <<>>]

\* createWatcher, up to its return: the callback is appended to the list of
\* the normalized path.
createWatcher(watchersMap, path, callback) ==
    LET normalizedPath == normalizePath(path)
        watchers == MapGetOrEmpty(watchersMap, normalizedPath)
        nextWatchers == Append(watchers, callback)
    IN  MapSet(watchersMap, normalizedPath, nextWatchers)

\* The filter of close: which of the registered callbacks stay.
closeFilter(watchers, callback) == SelectSeq(watchers, LAMBDA watcher : watcher # callback)

\* createWatcherClose that keeps the entry of a list it emptied.
createWatcherCloseKeepingEmpty(watchersMap, normalizedPath, callback) ==
    MapSet(watchersMap, normalizedPath,
           closeFilter(MapGetOrEmpty(watchersMap, normalizedPath), callback))

\* close of the handle createWatcher returns.
createWatcherClose(watchersMap, normalizedPath, callback) ==
    LET watchers == MapGetOrEmpty(watchersMap, normalizedPath)
        nextWatchers == closeFilter(watchers, callback)
    IN  IF Len(nextWatchers) > 0
        THEN MapSet(watchersMap, normalizedPath, nextWatchers)
        ELSE MapDelete(watchersMap, normalizedPath)

invokeFileWatchers(fileMap, path, event) ==
    LET normalizedPath == normalizePath(path)
        fileWatcherCallbacks == MapGetOrEmpty(fileMap, normalizedPath)
    IN  [i \in 1..Len(fileWatcherCallbacks) |->
            Effect("file", fileWatcherCallbacks[i], event,
                   forwardSlash(normalizedPath), normalizedPath, 0, TRUE)]

isIgnored(normalizedPath) ==
    \E i \in 1..Len(ignoredPaths) : Includes(forwardSlash(normalizedPath), ignoredPaths[i])

\* The test of the recursive watchers: watchedDirectory is the directory or
\* a prefix of it that a separator follows.
recursiveMatches(watchedDirectory, directory) ==
    \/ watchedDirectory = directory
    \/ /\ StartsWith(directory, watchedDirectory)
       /\ CharAt(forwardSlash(directory), Len(watchedDirectory)) = "/"

invokeDirectoryWatchers(dirMap, recMap, path) ==
    LET normalizedPath == normalizePath(path)
        directory == dirname(normalizedPath)
        directoryWatcherCallbacks == MapGetOrEmpty(dirMap, directory)
        direct ==
            [i \in 1..Len(directoryWatcherCallbacks) |->
                Effect("directory", directoryWatcherCallbacks[i], "change",
                       forwardSlash(normalizedPath), directory, 0, TRUE)]
        recursive ==
            [e \in 1..Len(recMap) |->
                IF recursiveMatches(recMap[e].key, directory)
                THEN [i \in 1..Len(recMap[e].val) |->
                        Effect("recursive", recMap[e].val[i], "change",
                               forwardSlash(normalizedPath), recMap[e].key, 0, TRUE)]
                ELSE <<>>]
    IN  IF isIgnored(normalizedPath) THEN <<>> ELSE direct \o Flatten(recursive)

\* getWriteFileSystem with includes in the place of endsWith.
getWriteFileSystemIncludes(path) ==
    IF mode = "readonly" \/ (mode = "write-tsbuildinfo" /\ ~Includes(path, TsBuildInfo))
    THEN "passive"
    ELSE "real"

getWriteFileSystem(path) ==
    IF mode = "readonly" \/ (mode = "write-tsbuildinfo" /\ ~EndsWith(path, TsBuildInfo))
    THEN "passive"
    ELSE "real"

\* ------------------------------------------------------------- providers

\* The files of a provider that holds none.
EmptyFiles == [k \in {} |-> "undefined"]

\* The contents written in the runs, and what the disk holds at the start.
Contents == {"x", "y"}
Disks == {EmptyFiles, [k \in {PathRAB} |-> "d"]}

\* realFileSystem.readFile: the content on disk, undefined for no file.
realReadFile(st, path) ==
    LET normalizedPath == normalizePath(path)
    IN  IF normalizedPath \in DOMAIN st.realFiles
        THEN st.realFiles[normalizedPath]
        ELSE "undefined"

\* passiveReadFile that asks the real provider first.
passiveReadFileRealFirst(st, path) ==
    LET normalizedPath == normalizePath(path)
    IN  IF normalizedPath \in DOMAIN st.realFiles
        THEN st.realFiles[normalizedPath]
        ELSE IF normalizedPath \in DOMAIN st.passiveFiles
        THEN st.passiveFiles[normalizedPath]
        ELSE "undefined"

\* passiveFileSystem.readFile: what the overlay holds for the path (a
\* buffered content, or undefined for a buffered delete), and what the real
\* provider reads where the overlay holds nothing.
passiveReadFile(st, path) ==
    LET normalizedPath == normalizePath(path)
    IN  IF normalizedPath \in DOMAIN st.passiveFiles
        THEN st.passiveFiles[normalizedPath]
        ELSE realReadFile(st, path)

\* writeFile of a provider: the passive one buffers the content in its
\* overlay, the real one writes it to disk.
providerWriteFile(st, fs, path, data) ==
    LET normalizedPath == normalizePath(path)
    IN  IF fs = "passive"
        THEN [st EXCEPT !.passiveFiles = DeletedSet(@, normalizedPath, data)]
        ELSE [st EXCEPT !.realFiles = DeletedSet(@, normalizedPath, data)]

\* deleteFile of a provider: the passive one buffers the delete, the real
\* one removes the file from disk.
providerDeleteFile(st, fs, path) ==
    LET normalizedPath == normalizePath(path)
    IN  IF fs = "passive"
        THEN [st EXCEPT !.passiveFiles = DeletedSet(@, normalizedPath, "undefined")]
        ELSE [st EXCEPT !.realFiles = [k \in DOMAIN @ \ {normalizedPath} |-> @[k]]]

\* clearCache of the passive provider discards the overlay; that of the real
\* provider discards what it cached of the disk, which stays as it is.
providerClearCache(st, fs) ==
    IF fs = "passive" THEN [st EXCEPT !.passiveFiles = EmptyFiles] ELSE st

\* ------------------------------------------------------------- notification synthesis

\* isCreated that holds of every write.
isCreatedAlways(st, normalizedPath) == TRUE

\* isCreated with has() in the place of get(): a path the tracker never saw
\* counts as deleted.
isCreatedNeverSeen(st, normalizedPath) ==
    \/ normalizedPath \notin DOMAIN st.deleted
    \/ DeletedGet(st.deleted, normalizedPath)
    \/ ~MapHas(st.file, normalizedPath)

\* The test of invokeFileChanged: created, or changed.
isCreated(st, normalizedPath) ==
    DeletedGet(st.deleted, normalizedPath) \/ ~MapHas(st.file, normalizedPath)

invokeFileChangedOn(st, path) ==
    LET normalizedPath == normalizePath(path)
    IN  IF isCreated(st, normalizedPath)
        THEN [st EXCEPT
                !.effects = @ \o invokeFileWatchers(st.file, path, "Created")
                              \o invokeDirectoryWatchers(st.dir, st.rec, normalizedPath),
                !.notified = Append(@, normalizedPath),
                !.deleted = DeletedSet(@, normalizedPath, FALSE),
                !.history = DeletedSet(@, normalizedPath, "written")]
        ELSE [st EXCEPT
                !.effects = @ \o invokeFileWatchers(st.file, path, "Changed"),
                !.history = DeletedSet(@, normalizedPath, "written")]

\* isNotYetDeleted without the test.
isNotYetDeletedAlways(st, normalizedPath) == TRUE

\* The test of invokeFileDeleted: not yet recorded as deleted.
isNotYetDeleted(st, normalizedPath) == ~DeletedGet(st.deleted, normalizedPath)

invokeFileDeletedOn(st, path) ==
    LET normalizedPath == normalizePath(path)
    IN  IF isNotYetDeleted(st, normalizedPath)
        THEN [st EXCEPT
                !.effects = @ \o invokeFileWatchers(st.file, path, "Deleted")
                              \o invokeDirectoryWatchers(st.dir, st.rec, path),
                !.notified = Append(@, path),
                !.deleted = DeletedSet(@, normalizedPath, TRUE),
                !.history = DeletedSet(@, normalizedPath, "deleted")]
        ELSE [st EXCEPT !.history = DeletedSet(@, normalizedPath, "deleted")]

\* The call on the routed provider, which comes first; ok is whether it
\* returns (it throws otherwise, and the operation ends there).
callProvider(st, method, path, ok) ==
    [st EXCEPT !.effects = Append(@, ProviderCall(getWriteFileSystem(path), method, path, ok))]

\* writeFileOn that notifies whether or not the provider returned.
writeFileOnIgnoringFailure(st, path, data, ok) ==
    LET called == callProvider(st, "writeFile", path, ok)
    IN  invokeFileChangedOn(
            IF ok THEN providerWriteFile(called, getWriteFileSystem(path), path, data)
            ELSE called,
            path)

writeFileOn(st, path, data, ok) ==
    LET called == callProvider(st, "writeFile", path, ok)
    IN  IF ok
        THEN invokeFileChangedOn(
                providerWriteFile(called, getWriteFileSystem(path), path, data), path)
        ELSE called

deleteFileOn(st, path, ok) ==
    LET called == callProvider(st, "deleteFile", path, ok)
    IN  IF ok
        THEN invokeFileDeletedOn(providerDeleteFile(called, getWriteFileSystem(path), path), path)
        ELSE called

\* readFile: what the passive provider reads.
readFileOn(st, path) ==
    [st EXCEPT
        !.effects = Append(@, ProviderCall("passive", "readFile", path, TRUE)),
        !.returned = passiveReadFile(st, path)]

\* clearCacheOn that clears the passive provider alone.
clearCacheOnPassiveOnly(st) ==
    [providerClearCache(st, "passive") EXCEPT
        !.effects = Append(@, ProviderCall("passive", "clearCache", <<>>, TRUE))]

\* clearCache: the passive provider's, then the real provider's.
clearCacheOn(st) ==
    [providerClearCache(providerClearCache(st, "passive"), "real") EXCEPT
        !.effects = @ \o <<ProviderCall("passive", "clearCache", <<>>, TRUE),
                           ProviderCall("real", "clearCache", <<>>, TRUE)>>]

createDirectoryOn(st, path, ok) ==
    LET called == callProvider(st, "createDir", path, ok)
    IN  IF ok
        THEN [called EXCEPT
                !.effects = @ \o invokeDirectoryWatchers(st.dir, st.rec, path),
                !.notified = Append(@, path)]
        ELSE called

\* setModifiedTimeOn that classifies the touch as a write is classified.
setModifiedTimeOnTracked(st, path, ok) ==
    LET called == callProvider(st, "updateTimes", path, ok)
    IN  IF ok THEN invokeFileChangedOn(called, path) ELSE called

setModifiedTimeOn(st, path, ok) ==
    LET called == callProvider(st, "updateTimes", path, ok)
    IN  IF ok
        THEN [called EXCEPT
                !.effects = @ \o invokeDirectoryWatchers(st.dir, st.rec, path)
                              \o invokeFileWatchers(st.file, path, "Changed"),
                !.notified = Append(@, path)]
        ELSE called

\* ------------------------------------------------------------- watchers

Handle(map, path, callback, sys) ==
    [map |-> map, path |-> path, key |-> normalizePath(path), callback |-> callback,
     sys |-> sys, sysOpen |-> sys, queuedCallbacks |-> <<>>, closed |-> FALSE]

watchFileOn(st, path, callback) ==
    [st EXCEPT
        !.file = createWatcher(@, path, callback),
        !.handles = Append(@, Handle("file", path, callback, FALSE))]

\* watchDirectory: the native watcher when ts.sys.watchDirectory is defined
\* (sys), and the registration in one of the two directory registries.
watchDirectoryOn(st, path, callback, recursive, sys) ==
    IF recursive
    THEN [st EXCEPT
            !.rec = createWatcher(@, path, callback),
            !.handles = Append(@, Handle("rec", path, callback, sys))]
    ELSE [st EXCEPT
            !.dir = createWatcher(@, path, callback),
            !.handles = Append(@, Handle("dir", path, callback, sys))]

\* The callback handed to ts.sys.watchDirectory: a new scopedCallback is
\* added to the set and pushed on the watcher's queuedCallbacks.
nativeCallbackOn(st, h, fileName) ==
    LET id == st.thunkCount + 1
        scopedCallback ==
            [id |-> id, h |-> h, callback |-> st.handles[h].callback, fileName |-> fileName]
    IN  [st EXCEPT
            !.thunkCount = id,
            !.queue = Append(@, scopedCallback),
            !.handles[h].queuedCallbacks = Append(@, id)]

\* queuedWatcherClose that leaves the watcher's scopedCallbacks in the set.
queuedWatcherCloseKeeping(st, h) == [st EXCEPT !.handles[h].sysOpen = FALSE]

\* queuedWatcher.close: the native watcher is closed and the watcher's
\* scopedCallbacks are deleted from the set.
queuedWatcherClose(st, h) ==
    [st EXCEPT
        !.handles[h].sysOpen = FALSE,
        !.queue = SelectSeq(@, LAMBDA t : t.id \notin Range(st.handles[h].queuedCallbacks))]

\* close of a handle: of watchFile's, controlledWatcher.close alone; of
\* watchDirectory's, queuedWatcher.close first when there is one.
closeOn(st, h) ==
    LET hd == st.handles[h]
        unqueued == IF hd.map # "file" /\ hd.sys THEN queuedWatcherClose(st, h) ELSE st
        marked == [unqueued EXCEPT !.handles[h].closed = TRUE]
    IN  CASE hd.map = "file" ->
                [marked EXCEPT !.file = createWatcherClose(@, hd.key, hd.callback)]
          [] hd.map = "dir" ->
                [marked EXCEPT !.dir = createWatcherClose(@, hd.key, hd.callback)]
          [] hd.map = "rec" ->
                [marked EXCEPT !.rec = createWatcherClose(@, hd.key, hd.callback)]

\* What a directory callback does when a flush invokes it: nothing, or it
\* closes the handle of a number, or it changes the directory it watches in
\* a way its native watcher reports at once.
Nothing == [do |-> "nothing", h |-> 0]
Report == [do |-> "report", h |-> 0]
Reactions == {Nothing, Report} \cup [do : {"close"}, h : 1..MaxHandles]

\* The reaction r of the callback of thunk t.
reactOn(st, r, t) ==
    CASE r.do = "nothing" -> st
      [] r.do = "close" -> IF r.h > Len(st.handles) THEN st ELSE closeOn(st, r.h)
      [] r.do = "report" ->
            IF st.handles[t.h].sysOpen /\ st.thunkCount < MaxThunks
            THEN nativeCallbackOn(st, t.h, st.handles[t.h].path)
            ELSE st

\* queuedWatcherCallbacksSet.forEach(callback => callback()): the entries are
\* visited in insertion order, an entry deleted before its turn is not
\* visited, an entry added before the visit ends is visited; then clear().
\* An invocation records whether the thunk's watcher was open (ok).
\* clearQueued without the clear.
clearQueuedForgotten(st) == st

\* queuedWatcherCallbacksSet.clear()
clearQueued(st) == [st EXCEPT !.queue = <<>>]

RECURSIVE invokeQueuedChangedOn(_, _, _)
invokeQueuedChangedOn(st, react, visited) ==
    LET unvisited == {i \in 1..Len(st.queue) : st.queue[i].id \notin visited}
    IN  IF unvisited = {}
        THEN clearQueued(st)
        ELSE LET i == CHOOSE j \in unvisited : \A k \in unvisited : j <= k
                 t == st.queue[i]
                 invoked ==
                    [st EXCEPT
                        !.effects = Append(@, Effect("queued", t.callback, "change",
                                                     t.fileName, st.handles[t.h].key, t.id,
                                                     ~st.handles[t.h].closed)),
                        !.ranThunks = @ \cup {t.id}]
             IN  invokeQueuedChangedOn(reactOn(invoked, react[t.id], t), react,
                                       visited \cup {t.id})

\* ------------------------------------------------------------- timers

\* setTimeout: the immediate is created and its id added to the set.
setTimeoutOn(st) ==
    LET timeoutId == Len(st.timers) + 1
    IN  [st EXCEPT
            !.timers = Append(@, [armed |-> TRUE, invoked |-> FALSE, cancelled |-> FALSE,
                                  threw |-> FALSE]),
            !.timeoutCallbacks = @ \cup {timeoutId}]

\* What a timer callback does when it runs: it returns, it schedules one more
\* timer and returns, or it throws.
TimerReactions == {"return", "schedule", "throw"}

\* The immediate of setTimeout: the callback runs, and when it has returned
\* the id is deleted from the set.
runTimeoutOn(st, timeoutId, reaction) ==
    LET invoked == [st EXCEPT !.timers[timeoutId].armed = FALSE,
                              !.timers[timeoutId].invoked = TRUE]
        reacted == IF reaction = "schedule" THEN setTimeoutOn(invoked) ELSE invoked
    IN  IF reaction = "throw"
        THEN [reacted EXCEPT !.timers[timeoutId].threw = TRUE]
        ELSE [reacted EXCEPT !.timeoutCallbacks = @ \ {timeoutId}]

clearTimeoutOn(st, timeoutId) ==
    [st EXCEPT
        !.timers[timeoutId].cancelled = @ \/ st.timers[timeoutId].armed,
        !.timers[timeoutId].armed = FALSE,
        !.timeoutCallbacks = @ \ {timeoutId}]

\* waitForQueuedOn with the loop's test off by one.
waitForQueuedOffByOne(st) ==
    IF Cardinality(st.timeoutCallbacks) > 1 THEN "waiting" ELSE "resolved"

\* The test of waitForQueued's loop, made at the call and at every turn the
\* loop yields to: the call resolves when the set is empty.
waitForQueuedOn(st) == IF Cardinality(st.timeoutCallbacks) > 0 THEN "waiting" ELSE "resolved"

\* ------------------------------------------------------------- steps

Op(name, path, ok, h) == [op |-> name, path |-> path, ok |-> ok, h |-> h, data |-> "none"]

\* The file watchers registered on a path, as a set.
Watching(fileMap, key) == Range(MapGetOrEmpty(fileMap, key))

\* The callbacks that watched a path before the first write or delete of it
\* and in every state since, st being the state a step ends in.
steadyAfter(st) ==
    [k \in DOMAIN st.history |->
        (IF k \in DOMAIN history THEN steady[k] ELSE Watching(fileWatcherCallbacksMap, k))
            \cap Watching(st.file, k)]

\* The last Created or Deleted a callback got for a path before the step
\* ("none" for none).
receivedBefore(rcv, k, callback) ==
    IF k \in DOMAIN rcv /\ callback \in DOMAIN rcv[k] THEN rcv[k][callback] ELSE "none"

\* The same after the step that ends in st.
receivedAfter(st) ==
    [k \in DOMAIN st.history |->
        [callback \in steadyAfter(st)[k] |->
            LET got == SelectSeq(st.effects,
                                 LAMBDA e : /\ e.kind = "file" /\ e.key = k /\ e.who = callback
                                            /\ e.what \in {"Created", "Deleted"})
            IN  IF got # <<>> THEN got[Len(got)].what
                ELSE receivedBefore(received, k, callback)]]

Commit(st, op) ==
    /\ fileWatcherCallbacksMap' = st.file
    /\ directoryWatcherCallbacksMap' = st.dir
    /\ recursiveDirectoryWatcherCallbacksMap' = st.rec
    /\ queuedWatcherCallbacksSet' = st.queue
    /\ deletedFiles' = st.deleted
    /\ handles' = st.handles
    /\ thunkCount' = st.thunkCount
    /\ history' = st.history
    /\ ranThunks' = st.ranThunks
    /\ timeoutCallbacks' = st.timeoutCallbacks
    /\ timers' = st.timers
    /\ passiveFiles' = st.passiveFiles
    /\ realFiles' = st.realFiles
    /\ returned' = st.returned
    /\ steady' = steadyAfter(st)
    /\ received' = receivedAfter(st)
    /\ effects' = st.effects
    /\ pre' = Core
    /\ last' = [op |-> op.op, path |-> op.path, ok |-> op.ok, h |-> op.h,
                data |-> op.data, notified |-> st.notified]
    /\ UNCHANGED <<mode, caseSensitive, sysWatchDirectory>>

HostStep(st, op) == Commit(st, op) /\ UNCHANGED waiting

InitCore ==
    [file |-> EmptyMap, dir |-> EmptyMap, rec |-> EmptyMap, queue |-> <<>>,
     deleted |-> EmptyDeleted, handles |-> <<>>, thunkCount |-> 0,
     history |-> EmptyDeleted, ranThunks |-> {}, timeoutCallbacks |-> {},
     timers |-> <<>>, passiveFiles |-> EmptyFiles, realFiles |-> EmptyFiles,
     steady |-> EmptyDeleted, received |-> EmptyDeleted, returned |-> "void",
     notified |-> <<>>, effects |-> <<>>]

\* The state createControlledTypeScriptSystem returns, for a mode and a
\* platform among those given.
InitWith(modes, caseSensitivities, sysWatchDirectories, disks) ==
    /\ mode \in modes
    /\ realFiles \in disks
    /\ passiveFiles = EmptyFiles
    /\ returned = "void"
    /\ steady = EmptyDeleted
    /\ received = EmptyDeleted
    /\ caseSensitive \in caseSensitivities
    /\ sysWatchDirectory \in sysWatchDirectories
    /\ fileWatcherCallbacksMap = EmptyMap
    /\ directoryWatcherCallbacksMap = EmptyMap
    /\ recursiveDirectoryWatcherCallbacksMap = EmptyMap
    /\ queuedWatcherCallbacksSet = <<>>
    /\ deletedFiles = EmptyDeleted
    /\ timeoutCallbacks = {}
    /\ handles = <<>>
    /\ thunkCount = 0
    /\ timers = <<>>
    /\ waiting = "idle"
    /\ history = EmptyDeleted
    /\ ranThunks = {}
    /\ last = [op |-> "create", path |-> <<>>, ok |-> TRUE, h |-> 0, data |-> "none",
               notified |-> <<>>]
    /\ pre = [InitCore EXCEPT !.realFiles = realFiles]
    /\ effects = <<>>

\* ------------------------------------------------------------- operations of the host

writeFile(path, data, ok) ==
    HostStep(writeFileOn(Core, path, data, ok),
             [Op("writeFile", path, ok, 0) EXCEPT !.data = data])

readFile(path) == HostStep(readFileOn(Core, path), Op("readFile", path, TRUE, 0))

clearCache == HostStep(clearCacheOn(Core), Op("clearCache", <<>>, TRUE, 0))

deleteFile(path, ok) == HostStep(deleteFileOn(Core, path, ok), Op("deleteFile", path, ok, 0))

createDirectory(path, ok) ==
    HostStep(createDirectoryOn(Core, path, ok), Op("createDirectory", path, ok, 0))

setModifiedTime(path, ok) ==
    HostStep(setModifiedTimeOn(Core, path, ok), Op("setModifiedTime", path, ok, 0))

invokeFileChanged(path) ==
    HostStep(invokeFileChangedOn(Core, path), Op("invokeFileChanged", path, TRUE, 0))

invokeFileDeleted(path) ==
    HostStep(invokeFileDeletedOn(Core, path), Op("invokeFileDeleted", path, TRUE, 0))

watchFile(path, callback) ==
    /\ Len(handles) < MaxHandles
    /\ HostStep(watchFileOn(Core, path, callback), Op("watchFile", path, TRUE, Len(handles) + 1))

watchDirectory(path, callback, recursive) ==
    /\ Len(handles) < MaxHandles
    /\ HostStep(watchDirectoryOn(Core, path, callback, recursive, sysWatchDirectory),
                Op("watchDirectory", path, TRUE, Len(handles) + 1))

\* close() of the handle of number h, which may have been closed before.
close(h) ==
    /\ h \in 1..Len(handles)
    /\ HostStep(closeOn(Core, h), Op("close", handles[h].path, TRUE, h))

\* The native watcher of handle h reports fileName: ts.sys calls the callback
\* it was given.  A closed native watcher reports nothing more.
nativeDirectoryChange(h, fileName) ==
    /\ h \in 1..Len(handles)
    /\ handles[h].sys /\ handles[h].sysOpen
    /\ thunkCount < MaxThunks
    /\ HostStep(nativeCallbackOn(Core, h, fileName), Op("nativeDirectoryChange", fileName, TRUE, h))

invokeQueuedChanged(react) ==
    HostStep(invokeQueuedChangedOn(Core, react, {}), Op("invokeQueuedChanged", <<>>, TRUE, 0))

setTimeout ==
    /\ Len(timers) < MaxTimers
    /\ HostStep(setTimeoutOn(Core), Op("setTimeout", <<>>, TRUE, Len(timers) + 1))

\* A turn of the event loop runs the immediate of timer timeoutId.
runTimeout(timeoutId, reaction) ==
    /\ timeoutId \in 1..Len(timers)
    /\ timers[timeoutId].armed
    /\ reaction = "schedule" => Len(timers) < MaxTimers
    /\ HostStep(runTimeoutOn(Core, timeoutId, reaction),
                Op("runTimeout", <<>>, reaction # "throw", timeoutId))

clearTimeout(timeoutId) ==
    /\ timeoutId \in 1..Len(timers)
    /\ HostStep(clearTimeoutOn(Core, timeoutId), Op("clearTimeout", <<>>, TRUE, timeoutId))

\* waitForQueued is called: the loop's test is made at once.
waitForQueued ==
    /\ waiting # "waiting"
    /\ waiting' = waitForQueuedOn(Core)
    /\ Commit(Core, Op("waitForQueued", <<>>, TRUE, 0))

\* A turn of the event loop resumes the loop of waitForQueued.
waitForQueuedTurn ==
    /\ waiting = "waiting"
    /\ waiting' = waitForQueuedOn(Core)
    /\ Commit(Core, Op("waitForQueuedTurn", <<>>, TRUE, 0))

\* ------------------------------------------------------------- specifications

\* Notification synthesis on a case-insensitive platform: writes, deletes and
\* touches of one file, written through two spellings of its path, with file
\* watchers registered on it through one of them and directory watchers on
\* its parent.
FilePaths == {PathRAB, PathUpperRAB}

Init == InitWith({"readonly"}, {FALSE}, {FALSE}, {EmptyFiles})

Next ==
    \/ \E path \in FilePaths, ok \in BOOLEAN : writeFile(path, "x", ok)
    \/ \E path \in FilePaths, ok \in BOOLEAN : deleteFile(path, ok)
    \/ \E ok \in BOOLEAN : createDirectory(PathRAB, ok)
    \/ \E ok \in BOOLEAN : setModifiedTime(PathRAB, ok)
    \/ invokeFileChanged(PathRAB)
    \/ invokeFileDeleted(PathRAB)
    \/ \E callback \in Callbacks : watchFile(PathUpperRAB, callback)
    \/ \E recursive \in BOOLEAN : watchDirectory(PathRA, "cb1", recursive)
    \/ \E h \in 1..MaxHandles : close(h)

Spec == Init /\ [][Next]_vars

\* Routing: every mode, and paths that end with the build-metadata
\* extension, that hold it elsewhere, or that do not hold it.
RoutePaths == {PathRAB, PathBuildInfo, PathBuildInfoDir}

InitRoute == InitWith(Modes, {TRUE}, {FALSE}, {EmptyFiles})

NextRoute ==
    \/ \E path \in RoutePaths, ok \in BOOLEAN : writeFile(path, "x", ok)
    \/ \E path \in RoutePaths, ok \in BOOLEAN : deleteFile(path, ok)
    \/ \E path \in RoutePaths, ok \in BOOLEAN : createDirectory(path, ok)
    \/ \E path \in RoutePaths, ok \in BOOLEAN : setModifiedTime(path, ok)
    \/ watchFile(PathBuildInfo, "cb1")

SpecRoute == InitRoute /\ [][NextRoute]_vars

\* Directory watchers: watchers on the root, on a directory, on its
\* subdirectory and on a sibling whose name extends the directory's, and
\* changes below each of them.
WatchedDirectories == {PathRoot, PathR, PathRA, PathRX}
ChangedPaths == {PathR, PathRB, PathRAB, PathRXB, PathGit}

InitDir == InitWith({"readonly"}, {TRUE}, {FALSE}, {EmptyFiles})

NextDir ==
    \/ \E path \in ChangedPaths : createDirectory(path, TRUE)
    \/ \E path \in ChangedPaths : setModifiedTime(path, TRUE)
    \/ writeFile(PathRAB, "x", TRUE)
    \/ deleteFile(PathRAB, TRUE)
    \/ \E path \in WatchedDirectories, recursive \in BOOLEAN :
            watchDirectory(path, "cb1", recursive)
    \/ \E h \in 1..MaxHandles : close(h)

SpecDir == InitDir /\ [][NextDir]_vars

\* What the native watcher of a directory may report: the directory itself
\* or a path below it.
Reports(directory, fileName) ==
    \/ fileName = directory
    \/ StartsWith(fileName, directory \o <<"/">>)

\* The thunks now in the set.
QueuedIds == {queuedWatcherCallbacksSet[i].id : i \in 1..Len(queuedWatcherCallbacksSet)}

\* The thunks a flush may invoke, for which it draws reactions: those in the
\* set and those the reactions may add.
FlushIds == IF QueuedIds = {} THEN {} ELSE QueuedIds \cup ((thunkCount + 1)..MaxThunks)

\* The queue of native directory changes: directory watchers with a native
\* watcher behind them (or none, where ts.sys has no watchDirectory), the
\* changes it reports, flushes whose callbacks may close handles, and closes.
NativePaths == {PathRB, PathGit}

InitQueue == InitWith({"readonly"}, {TRUE}, BOOLEAN, {EmptyFiles})

NextQueue ==
    \/ \E recursive \in BOOLEAN : watchDirectory(PathR, "cb1", recursive)
    \/ \E h \in 1..MaxHandles, fileName \in NativePaths :
            /\ h <= Len(handles)
            /\ Reports(handles[h].path, fileName)
            /\ nativeDirectoryChange(h, fileName)
    \/ \E react \in [FlushIds -> Reactions] : invokeQueuedChanged(react)
    \/ \E h \in 1..MaxHandles : close(h)

SpecQueue == InitQueue /\ [][NextQueue]_vars

\* Ignored paths: directory and file watchers on and around a version-control
\* directory, the host's own operations on paths inside it, and the native
\* changes a flush delivers.
IgnoredFilePaths == {PathGitX}

InitIgnored == InitWith({"readonly"}, {TRUE}, {TRUE}, {EmptyFiles})

NextIgnored ==
    \/ \E path \in {PathR, PathGit}, recursive \in BOOLEAN :
            watchDirectory(path, "cb1", recursive)
    \/ watchFile(PathGitX, "cb2")
    \/ \E h \in 1..MaxHandles, fileName \in {PathGit, PathGitX} :
            /\ h <= Len(handles)
            /\ Reports(handles[h].path, fileName)
            /\ nativeDirectoryChange(h, fileName)
    \/ \E react \in [QueuedIds -> {Nothing}] : invokeQueuedChanged(react)
    \/ \E path \in IgnoredFilePaths, ok \in BOOLEAN : writeFile(path, "x", ok)
    \/ \E path \in IgnoredFilePaths : deleteFile(path, TRUE)
    \/ \E path \in IgnoredFilePaths : setModifiedTime(path, TRUE)
    \/ createDirectory(PathGit, TRUE)

SpecIgnored == InitIgnored /\ [][NextIgnored]_vars

\* The virtual timers and the wait for them.
InitTimers == InitWith({"readonly"}, {TRUE}, {FALSE}, {EmptyFiles})

NextTimers ==
    \/ setTimeout
    \/ \E timeoutId \in 1..MaxTimers, reaction \in TimerReactions :
            runTimeout(timeoutId, reaction)
    \/ \E timeoutId \in 1..MaxTimers : clearTimeout(timeoutId)
    \/ waitForQueued
    \/ waitForQueuedTurn

SpecTimers == InitTimers /\ [][NextTimers]_vars

\* The same under fair scheduling: the event loop runs every immediate that
\* is armed and resumes a waitForQueued that waits.
SpecTimersFair ==
    /\ InitTimers
    /\ [][NextTimers]_vars
    /\ WF_vars(\E timeoutId \in 1..MaxTimers, reaction \in TimerReactions :
                    runTimeout(timeoutId, reaction))
    /\ WF_vars(waitForQueuedTurn)

\* Contents: in every mode, writes and deletes of a file that is or is not
\* on disk and of a build-metadata file, reads of them, and cache clears.
CachePaths == {PathRAB, PathBuildInfo}

InitCache == InitWith(Modes, {TRUE}, {FALSE}, Disks)

NextCache ==
    \/ \E path \in CachePaths, data \in Contents, ok \in BOOLEAN : writeFile(path, data, ok)
    \/ \E path \in CachePaths : deleteFile(path, TRUE)
    \/ \E path \in CachePaths : readFile(path)
    \/ clearCache

SpecCache == InitCache /\ [][NextCache]_vars

\* Cache clears among the watchers, queued changes, timers and tracked paths
\* they must leave alone.
InitClear == InitWith({"readonly"}, {TRUE}, {TRUE}, {EmptyFiles})

NextClear ==
    \/ clearCache
    \/ writeFile(PathRAB, "x", TRUE)
    \/ deleteFile(PathRAB, TRUE)
    \/ watchFile(PathRAB, "cb1")
    \/ \E recursive \in BOOLEAN : watchDirectory(PathRA, "cb1", recursive)
    \/ \E h \in 1..MaxHandles : nativeDirectoryChange(h, PathRAB)
    \/ setTimeout

SpecClear == InitClear /\ [][NextClear]_vars

\* ------------------------------------------------------------- what a step delivered

\* The path the last operation was about, as the registries key it.
LastKey == normalizePath(last.path)

\* The callbacks the last step invoked through a registry (kind) for a key
\* with an event, in order.
Invoked(kind, key, what) ==
    LET hits == SelectSeq(effects, LAMBDA e : e.kind = kind /\ e.key = key /\ e.what = what)
    IN  [i \in 1..Len(hits) |-> hits[i].who]

\* The file watchers of the last operation's path when it began.
WatchersBefore == MapGetOrEmpty(pre.file, LastKey)

NeverWrittenOrDeleted == LastKey \notin DOMAIN pre.history

LastWas(what) == LastKey \in DOMAIN pre.history /\ pre.history[LastKey] = what

Mutations == {"writeFile", "deleteFile", "createDirectory", "setModifiedTime"}

ProviderMethod ==
    [writeFile |-> "writeFile", deleteFile |-> "deleteFile",
     createDirectory |-> "createDir", setModifiedTime |-> "updateTimes"]

\* ------------------------------------------------------------- C1

\* C1, as stated: on a path never written or deleted that has a file watcher,
\* the first writeFile delivers Created to every file watcher of the path,
\* and a writeFile that follows a write with no delete in between delivers
\* Changed and not Created.
C1_FirstWriteDeliversCreated ==
    (last.op = "writeFile" /\ last.ok /\ WatchersBefore # <<>>) =>
        /\ NeverWrittenOrDeleted =>
                /\ Invoked("file", LastKey, "Created") = WatchersBefore
                /\ Invoked("file", LastKey, "Changed") = <<>>
        /\ LastWas("written") =>
                /\ Invoked("file", LastKey, "Changed") = WatchersBefore
                /\ Invoked("file", LastKey, "Created") = <<>>

\* C1, amended: on a path never written or deleted that has a file watcher,
\* the first writeFile delivers Changed, and not Created, to every file
\* watcher of the path, and so does a writeFile that follows a write with no
\* delete in between; a file watcher receives Created only from a write (or
\* invokeFileChanged) of a path whose last write or delete was a delete.
C1_FirstWriteDeliversChanged ==
    /\ (last.op = "writeFile" /\ last.ok /\ WatchersBefore # <<>>
            /\ (NeverWrittenOrDeleted \/ LastWas("written"))) =>
            /\ Invoked("file", LastKey, "Changed") = WatchersBefore
            /\ Invoked("file", LastKey, "Created") = <<>>
    /\ \A i \in 1..Len(effects) :
            (effects[i].kind = "file" /\ effects[i].what = "Created") =>
                /\ last.op \in {"writeFile", "invokeFileChanged"}
                /\ effects[i].key = LastKey
                /\ LastWas("deleted")

\* The first write of a path with two file watchers, which both get Changed.
C1_Witness ==
    /\ last.op = "writeFile" /\ last.ok
    /\ NeverWrittenOrDeleted
    /\ Len(WatchersBefore) = 2
    /\ Invoked("file", LastKey, "Changed") = WatchersBefore

\* ------------------------------------------------------------- C2

\* C2: a deleteFile of a path whose last write or delete was a delete (a
\* write being writeFile or the invokeFileChanged it ends with) calls the
\* provider and invokes no file watcher and no directory watcher; the first
\* deleteFile of such a run delivers Deleted to every file watcher of the
\* path, once.
C2_DeletedOncePerRun ==
    (last.op = "deleteFile" /\ last.ok) =>
        /\ Len(effects) >= 1
        /\ effects[1].kind = "provider" /\ effects[1].what = "deleteFile"
        /\ effects[1].path = last.path
        /\ IF LastWas("deleted")
           THEN Len(effects) = 1
           ELSE Invoked("file", LastKey, "Deleted") = WatchersBefore

\* A second deleteFile in a row of a path that has a file watcher and whose
\* parent has a directory watcher.
C2_Witness ==
    /\ last.op = "deleteFile" /\ last.ok
    /\ LastWas("deleted")
    /\ WatchersBefore # <<>>
    /\ Len(pre.dir) + Len(pre.rec) > 0
    /\ Len(effects) = 1

\* ------------------------------------------------------------- C3

\* The path ends with the twelve characters of the build-metadata extension.
CarriesBuildInfoExtension(path) ==
    /\ Len(path) >= 12
    /\ \A i \in 1..12 : path[Len(path) - 12 + i] = TsBuildInfo[i]

\* C3: each writeFile, deleteFile, createDirectory and setModifiedTime calls
\* one provider, once: the passive one in read-only mode, the real one in
\* write-unrestricted mode, and in build-artifact mode the real one exactly
\* when the path carries the build-metadata extension; whatever was called
\* before.
C3_RoutingByModeAndPath ==
    (last.op \in Mutations) =>
        LET calls == SelectSeq(effects, LAMBDA e : e.kind = "provider")
        IN  /\ Len(calls) = 1
            /\ calls[1].what = ProviderMethod[last.op]
            /\ calls[1].path = last.path
            /\ mode = "readonly" => calls[1].who = "passive"
            /\ mode = "write-references" => calls[1].who = "real"
            /\ mode = "write-tsbuildinfo" =>
                    (calls[1].who = "real" <=> CarriesBuildInfoExtension(last.path))
            /\ calls[1].who \in {"real", "passive"}

\* In build-artifact mode, a delete of the build-metadata file reaches the
\* real provider after a write of another file was buffered.
C3_Witness ==
    /\ mode = "write-tsbuildinfo"
    /\ last.op = "deleteFile" /\ last.path = PathBuildInfo
    /\ effects[1].who = "real"
    /\ PathRAB \in DOMAIN history

\* ------------------------------------------------------------- C8

\* C8: writeFile, deleteFile, createDirectory and setModifiedTime call the
\* provider before any watcher; when the provider fails nothing else
\* happens: no callback is invoked and the tracker, the registries and the
\* queue are as they were.
C8_ProviderFirstAndFailureStops ==
    (last.op \in Mutations) =>
        /\ Len(effects) >= 1
        /\ effects[1].kind = "provider"
        /\ effects[1].what = ProviderMethod[last.op]
        /\ effects[1].ok = last.ok
        /\ \A i \in 2..Len(effects) : effects[i].kind # "provider"
        /\ ~last.ok =>
                /\ Len(effects) = 1
                /\ deletedFiles = pre.deleted
                /\ fileWatcherCallbacksMap = pre.file
                /\ directoryWatcherCallbacksMap = pre.dir
                /\ recursiveDirectoryWatcherCallbacksMap = pre.rec
                /\ queuedWatcherCallbacksSet = pre.queue

\* A failed writeFile of a deleted path that has a file watcher and whose
\* parent has a directory watcher: had it succeeded, both would have been
\* invoked and the tracker changed.
C8_Witness ==
    /\ last.op = "writeFile" /\ ~last.ok
    /\ WatchersBefore # <<>>
    /\ Len(pre.dir) + Len(pre.rec) > 0
    /\ DeletedGet(deletedFiles, LastKey)

\* ------------------------------------------------------------- C4

\* The names of a path, from the root down.
RECURSIVE Segments(_)
Segments(path) ==
    IF path = <<>> THEN <<>>
    ELSE IF Head(path) = "/" THEN Segments(Tail(path))
    ELSE LET stops == {i \in 1..Len(path) : path[i] = "/"}
             end == IF stops = {} THEN Len(path) + 1
                    ELSE CHOOSE i \in stops : \A j \in stops : i <= j
         IN  <<SubSeq(path, 1, end - 1)>> \o Segments(SubSeq(path, end, Len(path)))

\* The directory that holds the path.
ParentOf(path) == SubSeq(Segments(path), 1, Len(Segments(path)) - 1)

\* directory is ancestor, or is in the subtree of ancestor.
IsWithin(directory, ancestor) ==
    /\ Len(ancestor) <= Len(directory)
    /\ SubSeq(directory, 1, Len(ancestor)) = ancestor

ContainsIgnored(path) == \E i \in 1..Len(ignoredPaths) : Includes(path, ignoredPaths[i])

\* The path the last operation handed to the directory watchers.
Notified == normalizePath(last.notified[1])

\* C4, as stated: when a path that is not ignored is notified, the recursive
\* watchers of a directory are invoked if and only if the path's parent is
\* the directory or lies in its subtree, and the non-recursive watchers of a
\* directory if and only if the path's parent is the directory.
C4_DirectoryWatcherScope ==
    (last.notified # <<>> /\ ~ContainsIgnored(Notified)) =>
        /\ \A e \in 1..Len(pre.rec) :
                Invoked("recursive", pre.rec[e].key, "change") =
                    IF IsWithin(ParentOf(Notified), Segments(pre.rec[e].key))
                    THEN pre.rec[e].val
                    ELSE <<>>
        /\ \A e \in 1..Len(pre.dir) :
                Invoked("directory", pre.dir[e].key, "change") =
                    IF ParentOf(Notified) = Segments(pre.dir[e].key)
                    THEN pre.dir[e].val
                    ELSE <<>>

\* ------------------------------------------------------------- C5

\* C5, as stated: no callback registered through watchDirectory is invoked
\* with a path that contains an ignored substring, by whatever operation;
\* and the file watchers of such a path are notified by its writes, by its
\* touches, and by the first of its deletes in a row.
C5_IgnoredPathsNeverReachDirectoryWatchers ==
    /\ \A i \in 1..Len(effects) :
            effects[i].kind \in {"directory", "recursive", "queued"} =>
                ~ContainsIgnored(effects[i].path)
    /\ (last.op \in {"writeFile", "deleteFile", "setModifiedTime"} /\ last.ok
            /\ ContainsIgnored(LastKey)
            /\ ~(last.op = "deleteFile" /\ LastWas("deleted"))) =>
            Len(SelectSeq(effects, LAMBDA e : e.kind = "file" /\ e.key = LastKey))
                = Len(WatchersBefore)

\* ------------------------------------------------------------- C6

\* The thunks a flush invoked, in order.
Ran == [i \in 1..Len(effects) |-> effects[i].id]

QueuedBefore == [i \in 1..Len(pre.queue) |-> pre.queue[i].id]

ClosedDuringLastStep(h) == handles[h].closed /\ ~pre.handles[h].closed

\* C6, as stated: a native directory change invokes no callback; each
\* invokeQueuedChanged invokes every thunk queued when it is called, once,
\* and leaves the set empty, and invokes no thunk an earlier flush invoked.
C6_FlushRunsEveryQueuedThunk ==
    /\ last.op = "nativeDirectoryChange" => effects = <<>>
    /\ last.op = "invokeQueuedChanged" =>
            /\ Ran = QueuedBefore
            /\ queuedWatcherCallbacksSet = <<>>
            /\ Range(Ran) \cap pre.ranThunks = {}

\* C6, amended: a native directory change invokes no callback and queues
\* its thunk; each invokeQueuedChanged invokes once, in the order they were
\* queued, the thunks queued when it is called, except those of a watcher
\* that a callback closes during the flush, which are not invoked once the
\* watcher is closed; it leaves the set empty and invokes no thunk an
\* earlier flush invoked.
C6_FlushRunsEveryLiveQueuedThunk ==
    /\ last.op = "nativeDirectoryChange" =>
            /\ effects = <<>>
            /\ Len(queuedWatcherCallbacksSet) = Len(pre.queue) + 1
    /\ last.op = "invokeQueuedChanged" =>
            /\ \A i \in 1..Len(effects) : effects[i].kind = "queued"
            /\ \A i, j \in 1..Len(Ran) : Ran[i] = Ran[j] => i = j
            /\ SelectSeq(Ran, LAMBDA id : id \in Range(QueuedBefore))
                    = SelectSeq(QueuedBefore, LAMBDA id : id \in Range(Ran))
            /\ \A i \in 1..Len(pre.queue) :
                    ~ClosedDuringLastStep(pre.queue[i].h) => pre.queue[i].id \in Range(Ran)
            /\ queuedWatcherCallbacksSet = <<>>
            /\ Range(Ran) \cap pre.ranThunks = {}

\* A flush of two queued thunks in which the callback of the first closes
\* the watcher of the second, which is not invoked.
C6_Witness ==
    /\ last.op = "invokeQueuedChanged"
    /\ Len(pre.queue) = 2
    /\ Ran = <<pre.queue[1].id>>
    /\ ClosedDuringLastStep(pre.queue[2].h)
    /\ queuedWatcherCallbacksSet = <<>>

\* ------------------------------------------------------------- C7

\* C7: when waitForQueued resolves, at its call or at a later turn, the set
\* of pending timers is empty and every timer scheduled so far, by the
\* caller or by a timer's callback, has run or was cancelled before it ran.
C7_WaitResolvesOnlyWhenDrained ==
    (last.op \in {"waitForQueued", "waitForQueuedTurn"} /\ waiting = "resolved") =>
        /\ timeoutCallbacks = {}
        /\ \A t \in 1..Len(timers) : timers[t].invoked \/ timers[t].cancelled

\* waitForQueued resolves at a later turn, after three timers of which one
\* ran and one was cancelled.
C7_Witness ==
    /\ last.op = "waitForQueuedTurn" /\ waiting = "resolved"
    /\ Len(timers) = 3
    /\ \E t \in 1..Len(timers) : timers[t].invoked
    /\ \E t \in 1..Len(timers) : timers[t].cancelled

\* ------------------------------------------------------------- C9, C10

Count(s, x) == Cardinality({i \in 1..Len(s) : s[i] = x})

Registry(core, map) ==
    CASE map = "file" -> core.file
      [] map = "dir" -> core.dir
      [] map = "rec" -> core.rec

Now ==
    [file |-> fileWatcherCallbacksMap, dir |-> directoryWatcherCallbacksMap,
     rec |-> recursiveDirectoryWatcherCallbacksMap]

\* The handle the last step closed, and the list it was registered in,
\* before and after.
Closed == pre.handles[last.h]
ListBefore == MapGetOrEmpty(Registry(pre, Closed.map), Closed.key)
ListAfter == MapGetOrEmpty(Registry(Now, Closed.map), Closed.key)

\* Nothing but the list of the closed handle's path changed.
OtherListsKept ==
    /\ \A map \in {"file", "dir", "rec"} \ {Closed.map} : Registry(Now, map) = Registry(pre, map)
    /\ \A e \in 1..Len(Registry(pre, Closed.map)) :
            LET key == Registry(pre, Closed.map)[e].key
            IN  key # Closed.key =>
                    MapGetOrEmpty(Registry(Now, Closed.map), key)
                        = MapGetOrEmpty(Registry(pre, Closed.map), key)

\* C9, as stated: the first close of a handle whose callback is in the list
\* of its path removes one registration of that callback and no other: every
\* other registration, of another callback or of the same one, stays.
C9_CloseRemovesOneRegistration ==
    (last.op = "close" /\ ~Closed.closed /\ Closed.callback \in Range(ListBefore)) =>
        /\ \A callback \in Callbacks :
                Count(ListAfter, callback) =
                    IF callback = Closed.callback
                    THEN Count(ListBefore, callback) - 1
                    ELSE Count(ListBefore, callback)
        /\ OtherListsKept

\* C10, as stated: a close of a handle that was closed before, or whose
\* callback is in no list, changes no registry: every registration that was
\* live stays live.
C10_RepeatedCloseIsNoOp ==
    (last.op = "close" /\ (Closed.closed \/ Closed.callback \notin Range(ListBefore))) =>
        /\ fileWatcherCallbacksMap = pre.file
        /\ directoryWatcherCallbacksMap = pre.dir
        /\ recursiveDirectoryWatcherCallbacksMap = pre.rec

\* ------------------------------------------------------------- C11

\* C11: clearCache calls the cache clear of the passive provider and of the
\* real provider, invokes no watcher callback, and leaves the file-watcher
\* registry, the two directory-watcher registries, the deleted-file tracker,
\* the queued directory changes and the pending timers as they were.
C11_ClearCacheTouchesProvidersOnly ==
    (last.op = "clearCache") =>
        /\ effects = <<ProviderCall("passive", "clearCache", <<>>, TRUE),
                       ProviderCall("real", "clearCache", <<>>, TRUE)>>
        /\ fileWatcherCallbacksMap = pre.file
        /\ directoryWatcherCallbacksMap = pre.dir
        /\ recursiveDirectoryWatcherCallbacksMap = pre.rec
        /\ deletedFiles = pre.deleted
        /\ queuedWatcherCallbacksSet = pre.queue
        /\ timeoutCallbacks = pre.timeoutCallbacks

\* A cache clear with a file watcher, a directory watcher, a queued change,
\* a pending timer and a tracked path, which discards a buffered write.
C11_Witness ==
    /\ last.op = "clearCache"
    /\ fileWatcherCallbacksMap # EmptyMap
    /\ directoryWatcherCallbacksMap \o recursiveDirectoryWatcherCallbacksMap # EmptyMap
    /\ queuedWatcherCallbacksSet # <<>>
    /\ timeoutCallbacks # {}
    /\ DOMAIN deletedFiles # {}
    /\ pre.passiveFiles # EmptyFiles

\* ------------------------------------------------------------- C12

\* C12: in every mode, a readFile of a path that follows a successful
\* writeFile of it returns the content written: the read returns what the
\* passive provider reads in the state the write left, and that is the
\* content written; in read-only mode the write leaves the content of the
\* real provider as it was.
C12_ReadAfterWrite ==
    /\ (last.op = "writeFile" /\ last.ok) =>
            /\ passiveReadFile(Core, last.path) = last.data
            /\ mode = "readonly" => realFiles = pre.realFiles
    /\ last.op = "readFile" => returned = passiveReadFile(pre, last.path)

\* In read-only mode, a write of a file that is on disk with another
\* content: the read returns the content written, the disk holds the other.
C12_Witness ==
    /\ mode = "readonly"
    /\ last.op = "writeFile" /\ last.ok
    /\ realReadFile(Core, last.path) = "d"
    /\ passiveReadFile(Core, last.path) = last.data

\* ------------------------------------------------------------- C13

\* The callbacks a registry of directory watchers held, when the last step
\* began, for the directories that are (direct) or that hold (recursive) the
\* parent of the last operation's path, were all invoked, in order.
ParentWatchersInvoked ==
    /\ \A e \in 1..Len(pre.dir) :
            Segments(pre.dir[e].key) = ParentOf(LastKey) =>
                Invoked("directory", pre.dir[e].key, "change") = pre.dir[e].val
    /\ \A e \in 1..Len(pre.rec) :
            IsWithin(ParentOf(LastKey), Segments(pre.rec[e].key)) =>
                Invoked("recursive", pre.rec[e].key, "change") = pre.rec[e].val

\* C13, as stated: every successful writeFile of a path that is not ignored,
\* classified created or changed, invokes the non-recursive directory
\* watchers of the path's parent and the recursive watchers that cover it.
C13_WriteNotifiesParentDirectoryWatchers ==
    (last.op = "writeFile" /\ last.ok /\ ~ContainsIgnored(LastKey)) => ParentWatchersInvoked

\* ------------------------------------------------------------- C14

\* The thunks created during the last step.
AddedDuringLastStep == (pre.thunkCount + 1)..thunkCount

NoHandleClosedDuringLastStep ==
    \A h \in 1..Len(pre.handles) : handles[h].closed = pre.handles[h].closed

\* C14, as stated: a thunk added to the set while invokeQueuedChanged runs
\* (and whose watcher stays open) is not invoked by that flush and is in the
\* set when the flush returns, for the next flush to run.
C14_ThunkAddedDuringFlushWaitsForNextFlush ==
    (last.op = "invokeQueuedChanged" /\ NoHandleClosedDuringLastStep) =>
        \A id \in AddedDuringLastStep :
            /\ id \notin Range(Ran)
            /\ id \in QueuedIds

\* ------------------------------------------------------------- C15

\* C15: no thunk of a closed directory watcher is in the set, and a flush
\* invokes no thunk whose watcher is closed when its turn comes; a close
\* removes from the set the thunks of the watcher closed and no other, and
\* a flush invokes every thunk that was queued for a watcher still open.
C15_ClosedWatcherThunksNeverRun ==
    /\ \A i \in 1..Len(queuedWatcherCallbacksSet) :
            ~handles[queuedWatcherCallbacksSet[i].h].closed
    /\ \A i \in 1..Len(effects) : effects[i].kind = "queued" => effects[i].ok
    /\ last.op = "close" =>
            queuedWatcherCallbacksSet = SelectSeq(pre.queue, LAMBDA t : t.h # last.h)
    /\ last.op = "invokeQueuedChanged" =>
            \A i \in 1..Len(pre.queue) :
                ~handles[pre.queue[i].h].closed => pre.queue[i].id \in Range(Ran)

\* The close of a watcher with a queued thunk, while a thunk of another
\* watcher is queued and stays.
C15_Witness ==
    /\ last.op = "close"
    /\ Len(pre.queue) = 2
    /\ \E i \in 1..2 : pre.queue[i].h = last.h
    /\ Len(queuedWatcherCallbacksSet) = 1
    /\ queuedWatcherCallbacksSet[1].h # last.h

\* ------------------------------------------------------------- C16

\* C16: a successful setModifiedTime of a path that is not ignored invokes
\* the directory watchers of the path's parent and delivers Changed, and
\* nothing else, to the file watchers of the path, whatever the tracker
\* records; it leaves the tracker as it was, so that a write or a delete of
\* the path is classified after it as before it.
C16_TouchIgnoresTracker ==
    (last.op = "setModifiedTime" /\ last.ok /\ ~ContainsIgnored(LastKey)) =>
        /\ ParentWatchersInvoked
        /\ Invoked("file", LastKey, "Changed") = WatchersBefore
        /\ \A i \in 1..Len(effects) : effects[i].kind = "file" => effects[i].what = "Changed"
        /\ deletedFiles = pre.deleted
        /\ isCreated(Core, LastKey) = isCreated(pre, LastKey)
        /\ isNotYetDeleted(Core, LastKey) = isNotYetDeleted(pre, LastKey)

\* The touch of a path recorded as deleted, which has a file watcher and
\* whose parent has a directory watcher: both are invoked, the path stays
\* recorded as deleted.
C16_Witness ==
    /\ last.op = "setModifiedTime" /\ last.ok
    /\ DeletedGet(pre.deleted, LastKey)
    /\ WatchersBefore # <<>>
    /\ Len(pre.dir) + Len(pre.rec) > 0
    /\ Len(effects) = 3
    /\ DeletedGet(deletedFiles, LastKey)

\* ------------------------------------------------------------- C17

\* C17, as stated: a timer cancelled before it fired is not in the set and
\* its callback is never run; a timer not cancelled runs its callback at
\* most once, and its token is in the set from its scheduling until that
\* run and not after it.
C17_TimerTokenLifetime ==
    \A t \in 1..Len(timers) :
        /\ timers[t].cancelled => (~timers[t].invoked /\ t \notin timeoutCallbacks)
        /\ timers[t].armed => (~timers[t].invoked /\ t \in timeoutCallbacks)
        /\ timers[t].invoked => t \notin timeoutCallbacks

\* ------------------------------------------------------------- C18

\* C18: every key of the three registries maps to a list that is not empty,
\* and a path whose registrations in a registry have all been closed is not
\* a key of that registry.
C18_NoEmptyRegistryEntries ==
    \A map \in {"file", "dir", "rec"} :
        /\ \A e \in 1..Len(Registry(Now, map)) : Registry(Now, map)[e].val # <<>>
        /\ \A h \in 1..Len(handles) :
                (/\ handles[h].map = map
                 /\ \A g \in 1..Len(handles) :
                        (handles[g].map = map /\ handles[g].key = handles[h].key) =>
                            handles[g].closed)
                    => ~MapHas(Registry(Now, map), handles[h].key)

\* The close of the only file watcher of a path, which removes the path
\* from the file-watcher registry, while a directory watcher stays.
C18_Witness ==
    /\ last.op = "close" /\ ~Closed.closed
    /\ Closed.map = "file"
    /\ ListBefore # <<>>
    /\ ~MapHas(fileWatcherCallbacksMap, Closed.key)
    /\ Len(directoryWatcherCallbacksMap) + Len(recursiveDirectoryWatcherCallbacksMap) > 0

\* ------------------------------------------------------------- C19

\* C19: a callback that watched a path before the first write or delete of
\* it and ever since gets Created only when the last Created or Deleted it
\* got for the path is a Deleted, and gets Deleted only when it is not: the
\* two alternate, beginning with Deleted.
C19_CreatedAndDeletedAlternate ==
    \A i \in 1..Len(effects) :
        (/\ effects[i].kind = "file"
         /\ effects[i].what \in {"Created", "Deleted"}
         /\ effects[i].key \in DOMAIN steady
         /\ effects[i].who \in steady[effects[i].key]) =>
            LET before == receivedBefore(pre.received, effects[i].key, effects[i].who)
            IN  IF effects[i].what = "Created"
                THEN before = "Deleted"
                ELSE before # "Deleted"

\* A steady watcher gets Created for a write that follows a delete it got
\* Deleted for.
C19_Witness ==
    /\ last.op \in {"writeFile", "invokeFileChanged"}
    /\ \E i \in 1..Len(effects) :
            /\ effects[i].kind = "file" /\ effects[i].what = "Created"
            /\ effects[i].key \in DOMAIN steady
            /\ effects[i].who \in steady[effects[i].key]
            /\ receivedBefore(pre.received, effects[i].key, effects[i].who) = "Deleted"

\* ------------------------------------------------------------- C20

\* C20, as stated: under fair scheduling, with the timers scheduled bounded,
\* a waitForQueued that waits resolves in the end, also when a timer's
\* callback throws.
C20_WaitEventuallyResolves == (waiting = "waiting") ~> (waiting = "resolved")

====
